---- MODULE Spec2Model ----
(***************************************************************************)
(* A model of autosklearn/pipeline/base.py (class BasePipeline): the       *)
(* search-space composer, the hyperparameter router, the constructor, the  *)
(* textual representation and batched prediction.                          *)
(*                                                                         *)
(* Strings that the code takes apart (hyperparameter names) are sequences  *)
(* of tokens, ":" being a token of its own: "clf:SVM:C" is                 *)
(* <<"clf", ":", "SVM", ":", "C">>.  Python's None is the string "None".   *)
(* A dict is a function; a Configuration is a record of its configuration  *)
(* space and its values (every hyperparameter of the space, the inactive   *)
(* ones valued None).                                                      *)
(*                                                                         *)
(* Not in base.py and modelled from the specification: the nodes           *)
(* (components/base.py), create_searchspace_util (get_match_array,         *)
(* find_active_choices, add_forbidden), the concrete pipeline's            *)
(* get_hyperparameter_search_space, ConfigSpace and the fitted estimator.  *)
(* get_default_configuration() may answer any legal combination of         *)
(* choices.  assert statements are executed (no python -O).                *)
(***************************************************************************)
EXTENDS Integers, Sequences, FiniteSets, TLC

\* ------------------------------------------------------------------ bounds

\* Longest input X given to predict (rows).
MaxLen == 3
\* Largest batch_size given to predict.
MaxBatch == 4

\* ------------------------------------------------------ values and dicts

None == "None"
EmptyDict == <<>>
Colon == ":"
ChoiceHP == "__choice__"

\* key in d
HasKey(d, k) == k \in DOMAIN d

\* d[k] = v of a Python dict: the key is added or its value replaced.
DictSet(d, k, v) == [x \in (DOMAIN d) \cup {k} |-> IF x = k THEN v ELSE d[x]]

\* An optional dict argument: None, or the dict d.
NoneArg == [none |-> TRUE, d |-> EmptyDict]
DictArg(d) == [none |-> FALSE, d |-> d]

\* ------------------------------------------------- pipelines and nodes

\* A step is a (name, node) pair; a node is an AutoSklearnComponent, an
\* AutoSklearnChoice, or an object of another kind that still answers
\* get_hyperparameter_search_space.
Step(n, k) == [name |-> n, kind |-> k]
PipelineFull == <<Step("imp", "Component"), Step("pre", "Choice"), Step("clf", "Choice")>>
PipelineShort == <<Step("imp", "Component"), Step("clf", "Choice")>>
PipelineOther == <<Step("imp", "Component"), Step("oth", "Other"), Step("clf", "Choice")>>
Pipelines == {PipelineFull, PipelineShort, PipelineOther}
NodeNames == {"imp", "pre", "clf", "oth"}

\* The candidate components of a Choice node.
NodeComponents(node) ==
    CASE node = "pre" -> {"nop", "dens", "pca"}
      [] node = "clf" -> {"SVM", "RF", "MNB"}
      [] OTHER -> {}

\* The hyperparameters of a component (or of a non-choice node): name -> domain.
OwnHyperparameters(c) ==
    CASE c = "imp" -> [h \in {"strategy"} |-> {"mean", "median"}]
      [] c = "SVM" -> [h \in {"C"} |-> {"lo"}]
      [] c = "pca" -> [h \in {"keep"} |-> {"all"}]
      [] c = "oth" -> [h \in {"flag"} |-> {"on"}]
      [] OTHER -> EmptyDict

\* Component Descriptor: what input a component accepts and what it emits.
\* props is [sparse, signed].
Accepts(c, props) ==
    CASE c = "dens" -> props.sparse
      [] c = "pca" -> ~props.sparse
      [] c = "SVM" -> ~props.sparse
      [] c = "MNB" -> ~props.signed
      [] OTHER -> TRUE

Emits(c, props) ==
    CASE c = "dens" -> [props EXCEPT !.sparse = FALSE]
      [] c = "pca" -> [sparse |-> FALSE, signed |-> TRUE]
      [] OTHER -> props

\* ------------------------------------------------ configuration spaces

\* A hyperparameter: its name, its legal values, and the condition under
\* which it is active (<<>>, or <<parent name, parent value>>).
HP(n, dom, cond) == [name |-> n, domain |-> dom, cond |-> cond]
EmptySpace == [hps |-> {}, forbidden |-> {}]

SpaceNames(cs) == {h.name : h \in cs.hps}

\* get_hyperparameter_search_space of a node.  include = None gives every
\* component of a Choice; a list restricts the choice to it.
NodeSearchSpace(node, kind, dp, include) ==
    IF kind = "Choice"
    THEN LET comps == IF include.none THEN NodeComponents(node)
                      ELSE NodeComponents(node) \cap include.d
         IN [hps |-> {HP(<<ChoiceHP>>, comps, <<>>)}
                     \cup UNION {{HP(<<c, Colon, h>>, OwnHyperparameters(c)[h],
                                     <<(<<ChoiceHP>>), c>>)
                                  : h \in DOMAIN OwnHyperparameters(c)} : c \in comps},
             forbidden |-> {}]
    ELSE [hps |-> {HP(<<h>>, OwnHyperparameters(node)[h], <<>>)
                   : h \in DOMAIN OwnHyperparameters(node)},
          forbidden |-> {}]

\* ConfigurationSpace.add_configuration_space(prefix, sub): every name of sub
\* (and every parent a condition names) is qualified "prefix:name".
Qualify(prefix, n) == <<prefix, Colon>> \o n

AddConfigurationSpace(cs, prefix, sub) ==
    [cs EXCEPT !.hps = cs.hps \cup
        {HP(Qualify(prefix, h.name), h.domain,
            IF h.cond = <<>> THEN <<>>
            ELSE <<Qualify(prefix, h.cond[1]), h.cond[2]>>) : h \in sub.hps}]

\* Whether hyperparameter h is active under the values v.
IsActive(h, v) ==
    \/ h.cond = <<>>
    \/ /\ h.cond[1] \in DOMAIN v
       /\ v[h.cond[1]] = h.cond[2]

\* A forbidden clause is a set of <<name, value>> pairs, all of which a
\* forbidden configuration has.
ClauseMatches(cl, v) == \A p \in cl : p[1] \in DOMAIN v /\ v[p[1]] = p[2]

\* Configuration(space, values): the values given (None for a name not
\* given) must name only hyperparameters of the space, give every active
\* one a legal value and every inactive one None, and match no forbidden
\* clause.
FillValues(cs, values) ==
    [n \in SpaceNames(cs) |-> IF n \in DOMAIN values THEN values[n] ELSE None]

IsLegalConfiguration(cs, values) ==
    LET v == FillValues(cs, values)
    IN /\ DOMAIN values \subseteq SpaceNames(cs)
       /\ \A h \in cs.hps : IF IsActive(h, v) THEN v[h.name] \in h.domain
                            ELSE v[h.name] = None
       /\ \A cl \in cs.forbidden : ~ClauseMatches(cl, v)

Configuration(cs, values) ==
    [configuration_space |-> cs, values |-> FillValues(cs, values)]

NoConfiguration == [configuration_space |-> EmptySpace, values |-> EmptyDict]

RECURSIVE Assignments(_)
Assignments(hps) ==
    IF hps = {} THEN {EmptyDict}
    ELSE LET h == CHOOSE x \in hps : TRUE
         IN {[n \in (DOMAIN f) \cup {h.name} |-> IF n = h.name THEN v ELSE f[n]]
             : f \in Assignments(hps \ {h}), v \in h.domain \cup {None}}

\* Every Configuration of a space.
Configurations(cs) ==
    {Configuration(cs, v) : v \in {f \in Assignments(cs.hps) : IsLegalConfiguration(cs, f)}}

\* ------------------------------------------- the compatibility subsystem

\* dict.get(key): None, or the list stored under key.
DictGet(d, k) == IF HasKey(d, k) THEN [none |-> FALSE, d |-> d[k]]
                 ELSE [none |-> TRUE, d |-> {}]

ChoiceSteps(pipeline) == {i \in 1..Len(pipeline) : pipeline[i].kind = "Choice"}

\* The candidate components of a choice step after include/exclude.
Candidates(node, include, exclude) ==
    {c \in NodeComponents(node) :
        /\ include.none \/ c \in include.d
        /\ exclude.none \/ c \notin exclude.d}

\* Whether one tuple of component selections is jointly satisfiable: the
\* properties flow left to right, each step consuming what the step before
\* it emits.
RECURSIVE Flows(_, _, _, _)
Flows(pipeline, coord, i, props) ==
    IF i > Len(pipeline) THEN TRUE
    ELSE LET c == IF pipeline[i].kind = "Choice" THEN coord[i] ELSE pipeline[i].name
         IN Accepts(c, props) /\ Flows(pipeline, coord, i + 1, Emits(c, props))

Coordinates(axes) == {f \in [DOMAIN axes -> UNION {axes[i] : i \in DOMAIN axes}] :
                        \A i \in DOMAIN axes : f[i] \in axes[i]}

\* get_match_array: one axis per choice-bearing step, true where the
\* combination is compatible with the dataset properties.
get_match_array(pipeline, dataset_properties, include, exclude) ==
    LET axes == [i \in ChoiceSteps(pipeline) |->
                    Candidates(pipeline[i].name, DictGet(include, pipeline[i].name),
                               DictGet(exclude, pipeline[i].name))]
        props == [sparse |-> dataset_properties["sparse"],
                  signed |-> dataset_properties["signed"]]
    IN [axes |-> axes,
        true |-> {f \in Coordinates(axes) : Flows(pipeline, f, 1, props)}]

\* np.sum(matches) and np.size(matches)
MatchesSum(matches) == Cardinality(matches.true)
MatchesSize(matches) == Cardinality(Coordinates(matches.axes))

\* find_active_choices: the candidates of step node_idx that are true in at
\* least one coordinate.
find_active_choices(matches, node_idx) ==
    {c \in matches.axes[node_idx] : \E f \in matches.true : f[node_idx] = c}

ChoiceName(pipeline, i) == <<pipeline[i].name, Colon, ChoiceHP>>

\* add_forbidden: one clause per false coordinate whose selections are all
\* still choices of the space, tying the choice values of that coordinate.
add_forbidden(conf_space, pipeline, matches) ==
    LET retained(i) == UNION {h.domain : h \in {x \in conf_space.hps :
                                                 x.name = ChoiceName(pipeline, i)}}
        illegal == {f \in Coordinates(matches.axes) \ matches.true :
                      \A i \in DOMAIN matches.axes : f[i] \in retained(i)}
    IN [conf_space EXCEPT !.forbidden = conf_space.forbidden \cup
          {{<<ChoiceName(pipeline, i), f[i]>> : i \in DOMAIN matches.axes} : f \in illegal}]

\* --------------------------------- _get_hyperparameter_search_space

\* for key in include/exclude: if key not in keys: raise ValueError
KeysValid(d, pipeline) ==
    \A key \in DOMAIN d : key \in {pipeline[i].name : i \in 1..Len(pipeline)}

\* the defaults written into dataset_properties
ApplyDefaults(dataset_properties) ==
    LET d1 == IF ~HasKey(dataset_properties, "sparse")
              THEN DictSet(dataset_properties, "sparse", FALSE) ELSE dataset_properties
    IN IF ~HasKey(d1, "signed") THEN DictSet(d1, "signed", FALSE) ELSE d1

\* (mutant) the assertion is gone
MatchesNonZeroDropped(matches) == TRUE

\* assert np.sum(matches) != 0
MatchesNonZero(matches) == MatchesSum(matches) # 0

\* assert np.sum(matches) <= np.size(matches)
MatchesBinary(matches) == MatchesSum(matches) <= MatchesSize(matches)

\* (mutant) the choice's space is asked for without include=choices_list
StepSearchSpaceUnpruned(matches, pipeline, node_idx, dataset_properties) ==
    NodeSearchSpace(pipeline[node_idx].name, pipeline[node_idx].kind, dataset_properties,
                    NoneArg)

\* The sub-space merged for one step of the loop.
StepSearchSpace(matches, pipeline, node_idx, dataset_properties) ==
    LET node == pipeline[node_idx]
    IN IF node.kind # "Choice"
       THEN NodeSearchSpace(node.name, node.kind, dataset_properties, NoneArg)
       ELSE NodeSearchSpace(node.name, node.kind, dataset_properties,
                            [none |-> FALSE, d |-> find_active_choices(matches, node_idx)])

RECURSIVE MergeSteps(_, _, _, _, _)
MergeSteps(cs, matches, pipeline, node_idx, dataset_properties) ==
    IF node_idx > Len(pipeline) THEN cs
    ELSE MergeSteps(AddConfigurationSpace(cs, pipeline[node_idx].name,
                        StepSearchSpace(matches, pipeline, node_idx, dataset_properties)),
                    matches, pipeline, node_idx + 1, dataset_properties)

\* (mutant) the comparison is turned round
NeedsForbiddenTurned(matches) == MatchesSum(matches) > MatchesSize(matches)

\* if np.sum(matches) < np.size(matches)
NeedsForbidden(matches) == MatchesSum(matches) < MatchesSize(matches)

NoMatches == [axes |-> EmptyDict, true |-> {}]

\* What a run of the composer leaves: how it ended, the space, the
\* dataset_properties dict as the run left it, the matrix, how many steps
\* were merged and whether add_forbidden ran.
Composed(status, cs, dp, matches, merged, forbidden) ==
    [status |-> status, cs |-> cs, dataset_properties |-> dp, matches |-> matches,
     merged |-> merged, forbidden_applied |-> forbidden]

NoComposition == Composed("none", EmptySpace, EmptyDict, NoMatches, 0, FALSE)

\* From the sanity checks on: the asserts, the loop over the steps and the
\* forbidden clauses.
ComposeMatched(cs, dp, pipeline, matches) ==
    IF ~MatchesNonZero(matches) \/ ~MatchesBinary(matches)
    THEN Composed("NoValidPipeline", cs, dp, matches, 0, FALSE)
    ELSE IF NeedsForbidden(matches)
    THEN Composed("ok", add_forbidden(MergeSteps(cs, matches, pipeline, 1, dp),
                                      pipeline, matches),
                  dp, matches, Len(pipeline), TRUE)
    ELSE Composed("ok", MergeSteps(cs, matches, pipeline, 1, dp), dp, matches,
                  Len(pipeline), FALSE)

\* include = {} / exclude = {} for None
ArgDict(arg) == IF arg.none THEN EmptyDict ELSE arg.d

\* _get_hyperparameter_search_space(cs, dataset_properties, exclude, include,
\* pipeline): the keys are checked, the defaults written into
\* dataset_properties, the matrix built, and the space composed from it.
get_hyperparameter_search_space_(cs, dataset_properties, exclude, include, pipeline) ==
    IF ~KeysValid(ArgDict(include), pipeline) \/ ~KeysValid(ArgDict(exclude), pipeline)
    THEN Composed("InvalidSelector", cs, dataset_properties, NoMatches, 0, FALSE)
    ELSE ComposeMatched(cs, ApplyDefaults(dataset_properties), pipeline,
             get_match_array(pipeline, ApplyDefaults(dataset_properties),
                             ArgDict(include), ArgDict(exclude)))

\* get_hyperparameter_search_space of the concrete pipeline class: a missing
\* dataset_properties is an empty dict, and the composer does the work.
get_hyperparameter_search_space(pipeline, include, exclude, dataset_properties) ==
    get_hyperparameter_search_space_(EmptySpace,
        IF dataset_properties.none THEN EmptyDict ELSE dataset_properties.d,
        exclude, include, pipeline)

\* ------------------------------------------------ set_hyperparameters

\* param.startswith(prefix)
StartsWith(s, prefix) ==
    Len(s) >= Len(prefix) /\ SubSeq(s, 1, Len(prefix)) = prefix

\* param.replace(old, '', 1): the first occurrence of old is removed.
ReplaceFirst(s, old) ==
    LET hits == {i \in 1..(Len(s) - Len(old) + 1) : SubSeq(s, i, i + Len(old) - 1) = old}
    IN IF hits = {} THEN s
       ELSE LET i == CHOOSE x \in hits : \A y \in hits : x <= y
            IN SubSeq(s, 1, i - 1) \o SubSeq(s, i + Len(old), Len(s))

\* (mutant) the prefix lacks the colon
NodePrefixNoColon(node_name) == <<node_name>>

\* '%s:' % node_name
NodePrefix(node_name) == <<node_name, Colon>>

\* Which parameters of the flat configuration go to the node.
BelongsTo(param, node_name) == StartsWith(param, NodePrefix(node_name))

\* The name a parameter has inside the node.
NewName(param, node_name) == ReplaceFirst(param, NodePrefix(node_name))

\* sub_config_dict of one node
SubConfigDict(configuration, node_name) ==
    LET params == {p \in DOMAIN configuration.values : BelongsTo(p, node_name)}
    IN [n \in {NewName(p, node_name) : p \in params} |->
          configuration.values[CHOOSE p \in params : NewName(p, node_name) = n]]

\* isinstance(node, (AutoSklearnChoice, AutoSklearnComponent))
IsSupportedNode(node) == node.kind \in {"Choice", "Component"}

\* What a node holds: nothing yet, or the sub-configuration it was given.
Unset == [set |-> FALSE, configuration |-> NoConfiguration]
Applied(sub_configuration) == [set |-> TRUE, configuration |-> sub_configuration]

\* The loop over the steps, from node_idx on.  It ends "ok", or at the step
\* where Configuration() or the isinstance test raised.
RECURSIVE RouteSteps(_, _, _, _, _)
RouteSteps(steps, dataset_properties_, configuration, hp, node_idx) ==
    IF node_idx > Len(steps) THEN [status |-> "ok", node_hp |-> hp, at |-> 0]
    ELSE LET node == steps[node_idx]
             sub_configuration_space ==
                 NodeSearchSpace(node.name, node.kind, dataset_properties_, NoneArg)
             sub_config_dict == SubConfigDict(configuration, node.name)
         IN IF ~IsLegalConfiguration(sub_configuration_space, sub_config_dict)
            THEN [status |-> "ValueError", node_hp |-> hp, at |-> node_idx]
            ELSE IF IsSupportedNode(node)
            THEN RouteSteps(steps, dataset_properties_, configuration,
                     [hp EXCEPT ![node.name] =
                         Applied(Configuration(sub_configuration_space, sub_config_dict))],
                     node_idx + 1)
            ELSE [status |-> "NotImplementedError", node_hp |-> hp, at |-> node_idx]

\* (mutant) the loop reads self.configuration when it is already set
RoutedConfigurationStale(self, configuration) ==
    IF self.configuration = NoConfiguration THEN configuration ELSE self.configuration

\* The configuration the loop reads: the argument.
RoutedConfiguration(self, configuration) == configuration

\* set_hyperparameters(self, configuration): self.configuration is assigned
\* first, then the loop runs.  self is [steps, dataset_properties_,
\* configuration, node_hp].
set_hyperparameters(self, configuration) ==
    LET r == RouteSteps(self.steps, self.dataset_properties_,
                        RoutedConfiguration(self, configuration), self.node_hp, 1)
    IN [configuration |-> configuration, node_hp |-> r.node_hp,
        status |-> r.status, at |-> r.at]

\* ------------------------------------------------------------- __init__

\* The config argument: None, a dict of values, or a Configuration.
ConfigNone == [kind |-> "none", c |-> NoConfiguration]
ConfigDict(values) == [kind |-> "dict", c |-> [configuration_space |-> EmptySpace,
                                                 values |-> values]]
ConfigObject(c) == [kind |-> "configuration", c |-> c]

\* (mutant) the spaces are not compared
SameSpaceUnchecked(cs, config) == TRUE

\* if cs != config.configuration_space: raise ValueError
SameSpace(cs, config) == cs = config.configuration_space

\* What the constructor leaves: whether an instance came out, its fields,
\* the nodes (the caller's objects) and how the call ended.
Built(ok, steps, dp_, configuration_, configuration, hp, status, comp, at, routed, rs) ==
    [constructed |-> ok, steps |-> steps, dataset_properties_ |-> dp_,
     configuration_ |-> configuration_, configuration |-> configuration,
     node_hp |-> hp, status |-> status, comp |-> comp, at |-> at, routed |-> routed,
     random_state |-> rs]

\* The random_state argument: None, or a seed.  check_random_state(seed) is
\* the generator seeded with it.
NoRandomState == [none |-> TRUE, seed |-> 0]
CheckRandomState(random_state) ==
    IF random_state.none THEN [none |-> FALSE, seed |-> 1] ELSE random_state

\* self.dataset_properties_: {} or the caller's dict itself, which the
\* composer has written the defaults into.
SelfDatasetProperties(dataset_properties, comp) ==
    IF dataset_properties.none THEN EmptyDict ELSE comp.dataset_properties

\* self.configuration_: the default of the space, the Configuration made of
\* the dict, or the Configuration passed.
SelectedConfiguration(config, cs, default) ==
    IF config.kind = "none" THEN default
    ELSE IF config.kind = "dict" THEN Configuration(cs, config.c.values)
    ELSE config.c

InitFailed(hp, status, comp, at, routed) ==
    Built(FALSE, <<>>, EmptyDict, NoConfiguration, NoConfiguration, hp, status, comp,
          at, routed, NoRandomState)

\* self.set_hyperparameters(self.configuration_) has run and ended as r.
InitRouted(pipeline, dp_, configuration_, comp, r, random_state) ==
    IF r.status = "ok"
    THEN Built(TRUE, pipeline, dp_, configuration_, r.configuration, r.node_hp, "ok",
               comp, 0, TRUE, CheckRandomState(random_state))
    ELSE InitFailed(r.node_hp, r.status, comp, r.at, TRUE)

\* self.configuration_ is chosen; set_hyperparameters is called with it.
InitSelected(pipeline, dp_, configuration_, comp, hp, random_state) ==
    InitRouted(pipeline, dp_, configuration_, comp,
        set_hyperparameters([steps |-> pipeline, dataset_properties_ |-> dp_,
                             configuration |-> NoConfiguration, node_hp |-> hp],
                            configuration_),
        random_state)

\* The space is composed (comp); the config argument is checked against it.
InitComposed(config, pipeline, dataset_properties, default, hp, comp, random_state) ==
    IF comp.status # "ok" THEN InitFailed(hp, comp.status, comp, 0, FALSE)
    ELSE IF config.kind = "dict" /\ ~IsLegalConfiguration(comp.cs, config.c.values)
    THEN InitFailed(hp, "ValueError", comp, 0, FALSE)
    ELSE IF config.kind = "configuration" /\ ~SameSpace(comp.cs, config.c)
    THEN InitFailed(hp, "ConfigurationMismatch", comp, 0, FALSE)
    ELSE InitSelected(pipeline, SelfDatasetProperties(dataset_properties, comp),
                      SelectedConfiguration(config, comp.cs, default), comp, hp,
                      random_state)

\* __init__(config, pipeline, dataset_properties, include, exclude,
\* random_state); default is what get_default_configuration() of the composed
\* space answers, hp the nodes as the caller hands them over.
init_(config, pipeline, dataset_properties, include, exclude, random_state, default, hp) ==
    InitComposed(config, pipeline, dataset_properties, default, hp,
        get_hyperparameter_search_space(pipeline, include, exclude, dataset_properties),
        random_state)

\* ------------------------------------------------------------- __repr__

\* The values the representation lists: those of self.configuration_ that
\* are not None.
ReprValues(configuration_) ==
    [n \in {x \in DOMAIN configuration_.values : configuration_.values[x] # None}
        |-> configuration_.values[n]]

\* A fixed order of the tokens, for sorted().
TokenRank(t) ==
    CASE t = ":" -> 0 [] t = "C" -> 1 [] t = "MNB" -> 2 [] t = "RF" -> 3
      [] t = "SVM" -> 4 [] t = "__choice__" -> 5 [] t = "clf" -> 6 [] t = "dens" -> 7
      [] t = "flag" -> 8 [] t = "imp" -> 9 [] t = "keep" -> 10 [] t = "nop" -> 11
      [] t = "oth" -> 12 [] t = "pca" -> 13 [] t = "pre" -> 14 [] OTHER -> 15

RECURSIVE NameLess(_, _)
NameLess(a, b) ==
    IF a = <<>> THEN b # <<>>
    ELSE IF b = <<>> THEN FALSE
    ELSE IF Head(a) = Head(b) THEN NameLess(Tail(a), Tail(b))
    ELSE TokenRank(Head(a)) < TokenRank(Head(b))

RECURSIVE Sorted(_)
Sorted(names) ==
    IF names = {} THEN <<>>
    ELSE LET m == CHOOSE x \in names : \A y \in names \ {x} : NameLess(x, y)
         IN <<m>> \o Sorted(names \ {m})

\* __repr__: the values in name order when there are no dataset
\* properties, the dict of values and the dataset properties otherwise.
Repr(configuration_, dataset_properties_) ==
    LET configuration == ReprValues(configuration_)
        names == Sorted(DOMAIN configuration)
    IN IF DOMAIN dataset_properties_ # {}
       THEN [config |-> configuration, dataset_properties |-> dataset_properties_]
       ELSE [config |-> [i \in 1..Len(names) |-> <<names[i], configuration[names[i]]>>],
             dataset_properties |-> EmptyDict]

\* -------------------------------------------------------------- predict

Min(a, b) == IF a < b THEN a ELSE b
Max(a, b) == IF a > b THEN a ELSE b

\* What the fitted final estimator answers for one row, in halves: the
\* selected classifier shifts it.
Shift(configuration) ==
    LET n == <<"clf", Colon, ChoiceHP>>
    IN IF n \in DOMAIN configuration.values /\ configuration.values[n] = "RF" THEN 1 ELSE 0

RawRow(self, x) ==
    IF self.num_targets = 1 THEN 3 * x + Shift(self.configuration)
    ELSE [t \in 1..self.num_targets |-> 3 * x + t + Shift(self.configuration)]

\* .astype(self._output_dtype): halves are cut to whole numbers.
AsOutputDtype(self, v) ==
    IF self.num_targets = 1 THEN v \div 2
    ELSE [t \in 1..self.num_targets |-> v[t] \div 2]

\* super().predict(X).astype(self._output_dtype)
PredictAll(self, X) == [i \in 1..Len(X) |-> AsOutputDtype(self, RawRow(self, X[i]))]

\* np.zeros((X.shape[0],)) or np.zeros((X.shape[0], self.num_targets))
Zeros(self, n) ==
    [i \in 1..n |-> IF self.num_targets = 1 THEN 0
                    ELSE [t \in 1..self.num_targets |-> 0]]

\* X[batch_from:batch_to], rows counted from 0, the end clipped.
Slice(X, batch_from, batch_to) == SubSeq(X, batch_from + 1, Min(batch_to, Len(X)))

\* y[batch_from:batch_to] = values (values has the length of the slice: it
\* is the prediction of X[batch_from:batch_to])
SliceAssign(y, batch_from, batch_to, values) ==
    [i \in 1..Len(y) |->
        IF i > batch_from /\ i <= Min(batch_to, Len(y)) /\ i - batch_from <= Len(values)
        THEN values[i - batch_from] ELSE y[i]]

\* (mutant) the quotient is rounded down
NumBatchesFloor(n, batch_size) == Max(1, n \div batch_size)

\* max(1, int(np.ceil(float(X.shape[0]) / batch_size)))
NumBatches(n, batch_size) == Max(1, (n + batch_size - 1) \div batch_size)

BatchFrom(k, batch_size) == k * batch_size
BatchTo(k, batch_size, n) == Min((k + 1) * batch_size, n)

\* for k in range(...), from batch k on
RECURSIVE PredictBatches(_, _, _, _, _)
PredictBatches(self, X, batch_size, y, k) ==
    IF k >= NumBatches(Len(X), batch_size) THEN y
    ELSE LET batch_from == BatchFrom(k, batch_size)
             batch_to == BatchTo(k, batch_size, Len(X))
         IN PredictBatches(self, X, batch_size,
                SliceAssign(y, batch_from, batch_to,
                            PredictAll(self, Slice(X, batch_from, batch_to))),
                k + 1)

\* predict(X, batch_size): batch_size is [none, b].
predict(self, X, batch_size) ==
    IF batch_size.none THEN [status |-> "ok", y |-> PredictAll(self, X)]
    ELSE IF batch_size.b <= 0 THEN [status |-> "Exception", y |-> <<>>]
    ELSE [status |-> "ok",
          y |-> PredictBatches(self, X, batch_size.b, Zeros(self, Len(X)), 0)]

\* ---------------------------------------------------------------- state

VARIABLES
    constructed,          \* a pipeline instance exists
    steps,                \* self.steps
    dataset_properties_,  \* self.dataset_properties_
    configuration_,       \* self.configuration_ (set by __init__)
    configuration,        \* self.configuration (set by set_hyperparameters)
    node_hp,              \* what each node object holds
    num_targets,          \* self.num_targets
    random_state,         \* self.random_state
    last,                 \* the last call: its arguments and how it ended
    pred                  \* the last predict call: its arguments and result

vars == <<constructed, steps, dataset_properties_, configuration_, configuration,
          node_hp, num_targets, random_state, last, pred>>

pipeline_vars == <<constructed, steps, dataset_properties_, configuration_,
                   configuration, node_hp, num_targets, random_state>>

\* The dataset_properties dict of the caller: whether one was passed, what it
\* held before the call and what it holds after it.
NoCallerDict == [given |-> FALSE, before |-> EmptyDict, after |-> EmptyDict]
CallerDict(before, after) == [given |-> TRUE, before |-> before, after |-> after]

Call(op, status, kind, arg, pipeline, comp, at, routed, dict) ==
    [op |-> op, status |-> status, kind |-> kind, arg |-> arg, pipeline |-> pipeline,
     comp |-> comp, at |-> at, routed |-> routed, caller_dict |-> dict]

NoPrediction == [X |-> <<>>, batch_size |-> [none |-> TRUE, b |-> 0],
                 status |-> "none", y |-> <<>>]

\* ---------------------------------------------------------------- inputs

\* dataset_properties arguments
DatasetPropertiesArgs ==
    {NoneArg, DictArg(EmptyDict),
     DictArg([k \in {"sparse"} |-> TRUE]),
     DictArg([k \in {"signed"} |-> TRUE])}

\* include and exclude arguments
IncludeArgs == {NoneArg, DictArg([k \in {"clf"} |-> {"SVM"}]),
                DictArg([k \in {"est"} |-> {"RF"}])}
ExcludeArgs == {NoneArg, DictArg([k \in {"pre"} |-> {"dens"}])}

\* Configurations a caller may hold for a pipeline: those of the spaces built
\* for it from dense and from sparse dataset properties.
KnownSpaces(pipeline, include, exclude) ==
    {r.cs : r \in {x \in {get_hyperparameter_search_space(pipeline, include, exclude, dp)
                          : dp \in {NoneArg, DictArg([k \in {"sparse"} |-> TRUE])}}
                   : x.status = "ok"}}

KnownConfigurations(pipeline, include, exclude) ==
    UNION {Configurations(cs) : cs \in KnownSpaces(pipeline, include, exclude)}

\* Configurations of another pipeline's space.
ForeignConfigurations(pipeline) ==
    UNION {{c \in KnownConfigurations(p, NoneArg, NoneArg) :
               /\ c.values[<<"imp", Colon, "strategy">>] = "median"
               /\ c.values[<<"clf", Colon, ChoiceHP>>] = "RF"}
           : p \in {PipelineFull, PipelineShort} \ {pipeline}}

\* What get_default_configuration() may answer: every hyperparameter that is
\* no choice at its default value, the choices at any legal combination.
IsDefaultValue(n, v) ==
    \/ Len(n) > 0 /\ n[Len(n)] = ChoiceHP
    \/ v \in {None, "mean", "lo", "all", "on"}

DefaultConfigurations(cs) ==
    {c \in Configurations(cs) : \A n \in DOMAIN c.values : IsDefaultValue(n, c.values[n])}

\* The dicts of values a caller may pass as config.
KnownDicts(pipeline, include, exclude) ==
    {ReprValues(c) : c \in {x \in KnownConfigurations(pipeline, include, exclude) :
                              x.values[<<"imp", Colon, "strategy">>] = "median"}}

\* random_state arguments
RandomStateArgs == {NoRandomState, [none |-> FALSE, seed |-> 7]}

Rows == 1..2
Inputs == UNION {[1..n -> Rows] : n \in 0..MaxLen}
BatchSizes == {[none |-> TRUE, b |-> 0]} \cup {[none |-> FALSE, b |-> b] : b \in 0..MaxBatch}

\* ------------------------------------------------------------------ Init

Init ==
    /\ constructed = FALSE
    /\ steps = <<>>
    /\ dataset_properties_ = EmptyDict
    /\ configuration_ = NoConfiguration
    /\ configuration = NoConfiguration
    /\ node_hp = [n \in NodeNames |-> Unset]
    /\ num_targets = 1
    /\ random_state = NoRandomState
    /\ last = Call("init", "ok", "none", NoConfiguration, <<>>, NoComposition, 0, FALSE,
                   NoCallerDict)
    /\ pred = NoPrediction

\* --------------------------------------------------------------- actions

\* The config arguments tried, and the defaults the space may answer.
ConfigArgs(pipeline, include, exclude) ==
    {ConfigNone}
    \cup {ConfigObject(c) : c \in KnownConfigurations(pipeline, include, exclude)}
    \cup {ConfigDict(d) : d \in KnownDicts(pipeline, include, exclude)}

DefaultsFor(config, comp) ==
    IF config.kind = "none" /\ comp.status = "ok"
    THEN DefaultConfigurations(comp.cs) ELSE {NoConfiguration}

\* The pipeline is as the constructor (ended as b) left it.
PipelineIs(b) ==
    /\ constructed = b.constructed
    /\ steps = b.steps
    /\ dataset_properties_ = b.dataset_properties_
    /\ configuration_ = b.configuration_
    /\ configuration = b.configuration
    /\ node_hp = b.node_hp
    /\ random_state = b.random_state

Constructed(b, config, pipeline, dp) ==
    /\ constructed' = b.constructed
    /\ steps' = b.steps
    /\ dataset_properties_' = b.dataset_properties_
    /\ configuration_' = b.configuration_
    /\ configuration' = b.configuration
    /\ node_hp' = b.node_hp
    /\ random_state' = b.random_state
    /\ last' = Call("construct", b.status, config.kind, config.c, pipeline, b.comp, b.at,
                    b.routed,
                    IF dp.none THEN NoCallerDict
                    ELSE CallerDict(dp.d, b.comp.dataset_properties))

\* BasePipeline(config, pipeline, dataset_properties, include, exclude,
\* random_state)
Construct ==
    /\ last.op = "init"
    /\ \E pipeline \in Pipelines, dp \in DatasetPropertiesArgs,
          include \in IncludeArgs, exclude \in ExcludeArgs, rs \in RandomStateArgs :
         \E config \in ConfigArgs(pipeline, include, exclude) :
           \E default \in DefaultsFor(config,
                  get_hyperparameter_search_space(pipeline, include, exclude, dp)) :
             Constructed(init_(config, pipeline, dp, include, exclude, rs, default,
                               node_hp),
                         config, pipeline, dp)
    /\ UNCHANGED <<num_targets, pred>>

\* pipeline.set_hyperparameters(c)
Routed(r, c) ==
    /\ configuration' = r.configuration
    /\ node_hp' = r.node_hp
    /\ last' = Call("set_hyperparameters", r.status, "configuration", c, steps,
                    NoComposition, r.at, TRUE, NoCallerDict)

SetHyperparameters ==
    /\ constructed
    /\ \E c \in Configurations(configuration_.configuration_space)
                \cup ForeignConfigurations(steps) :
         Routed(set_hyperparameters(
                    [steps |-> steps, dataset_properties_ |-> dataset_properties_,
                     configuration |-> configuration, node_hp |-> node_hp], c), c)
    /\ UNCHANGED <<constructed, steps, dataset_properties_, configuration_,
                   num_targets, random_state, pred>>

Composing(comp, pipeline, dp) ==
    last' = Call("compose", comp.status, "none", NoConfiguration, pipeline, comp, 0,
                 FALSE, CallerDict(dp.d, comp.dataset_properties))

\* _get_hyperparameter_search_space(cs, dataset_properties, exclude, include,
\* pipeline) called on a list of steps with a dict of the caller (the method
\* reads nothing of self)
ComposeSearchSpace ==
    /\ last.op = "init"
    /\ \E pipeline \in Pipelines, dp \in DatasetPropertiesArgs \ {NoneArg},
          include \in IncludeArgs, exclude \in ExcludeArgs :
         Composing(get_hyperparameter_search_space_(EmptySpace, dp.d, exclude, include,
                                                    pipeline), pipeline, dp)
    /\ UNCHANGED <<pipeline_vars, pred>>

Predicted(r, X, batch_size) ==
    pred' = [X |-> X, batch_size |-> batch_size, status |-> r.status, y |-> r.y]

\* pipeline.predict(X, batch_size)
Predict ==
    /\ constructed
    /\ \E X \in Inputs, batch_size \in BatchSizes :
         Predicted(predict([num_targets |-> num_targets, configuration |-> configuration],
                           X, batch_size), X, batch_size)
    /\ UNCHANGED <<pipeline_vars, last>>

Next == Construct \/ SetHyperparameters \/ ComposeSearchSpace

Spec == Init /\ [][Next]_vars

\* Prediction: a pipeline constructed with the defaults, of one or of two
\* targets, on which predict is called.
InitPredict ==
    /\ \E default \in DefaultConfigurations(
            get_hyperparameter_search_space(PipelineShort, NoneArg, NoneArg, NoneArg).cs) :
         PipelineIs(init_(ConfigNone, PipelineShort, NoneArg, NoneArg, NoneArg,
                          NoRandomState, default, [n \in NodeNames |-> Unset]))
    /\ last = Call("construct", "ok", "none", NoConfiguration, PipelineShort,
                   get_hyperparameter_search_space(PipelineShort, NoneArg, NoneArg, NoneArg),
                   0, TRUE, NoCallerDict)
    /\ num_targets \in {1, 2}
    /\ pred = NoPrediction

NextPredict == Predict

SpecPredict == InitPredict /\ [][NextPredict]_vars

\* ------------------------------------------------------------ properties

\* The last call ran the composer as far as the matrix.
MatrixBuilt == /\ last.op \in {"construct", "compose"}
               /\ last.comp.status \in {"ok", "NoValidPipeline"}

ComposedOk == last.op \in {"construct", "compose"} /\ last.comp.status = "ok"

AllUnset == \A n \in NodeNames : node_hp[n] = Unset

AllSupported(pipeline) == \A i \in 1..Len(pipeline) : IsSupportedNode(pipeline[i])

\* C1: a matrix without a true entry makes composition (and construction)
\* fail with NoValidPipeline before any step's space is merged, no instance is
\* produced; a composition that succeeds has 0 < true_count <= total_size.
C1_NoValidPipeline ==
    /\ (MatrixBuilt /\ MatchesSum(last.comp.matches) = 0) =>
          /\ last.status = "NoValidPipeline"
          /\ last.comp.merged = 0
          /\ last.comp.cs = EmptySpace
          /\ ~last.routed
          /\ ~constructed
    /\ ComposedOk =>
          /\ 0 < MatchesSum(last.comp.matches)
          /\ MatchesSum(last.comp.matches) <= MatchesSize(last.comp.matches)

C1_Witness ==
    /\ last.op = "construct"
    /\ last.status = "NoValidPipeline"
    /\ MatchesSize(last.comp.matches) > 0
    /\ MatchesSum(last.comp.matches) = 0

\* The row ranges of the batches of n rows: batch k is [from, to).
BatchRanges(n, b) ==
    [k \in 0..(NumBatches(n, b) - 1) |-> <<BatchFrom(k, b), BatchTo(k, b, n)>>]

\* C2: predict(X, batch_size=b) with b a positive integer returns, element for
\* element, what predict(X, batch_size=None) returns; the batches are
\* contiguous row ranges that cover every row exactly once, in row order.
C2_BatchedEqualsUnbatched ==
    (pred.status = "ok" /\ ~pred.batch_size.none) =>
        LET n == Len(pred.X)
            b == pred.batch_size.b
            r == BatchRanges(n, b)
        IN /\ pred.y = predict([num_targets |-> num_targets,
                                configuration |-> configuration],
                               pred.X, [none |-> TRUE, b |-> 0]).y
           /\ Len(pred.y) = n
           /\ r[0][1] = 0
           /\ r[NumBatches(n, b) - 1][2] = n
           /\ \A k \in DOMAIN r : k > 0 => r[k][1] = r[k - 1][2]
           /\ \A row \in 0..(n - 1) :
                 Cardinality({k \in DOMAIN r : r[k][1] <= row /\ row < r[k][2]}) = 1

C2_Witness ==
    /\ pred.status = "ok"
    /\ ~pred.batch_size.none
    /\ pred.batch_size.b = 2
    /\ Len(pred.X) = 3
    /\ pred.X[1] # pred.X[3]
    /\ num_targets = 2

\* C3 as stated: a Configuration of another space makes construction fail with
\* ConfigurationMismatch before set_hyperparameters touches a step; with equal
\* spaces construction succeeds and the selected configuration is the one
\* supplied.
C3_AsStated ==
    (last.op = "construct" /\ last.kind = "configuration" /\ last.comp.status = "ok") =>
        IF last.arg.configuration_space # last.comp.cs
        THEN /\ last.status = "ConfigurationMismatch"
             /\ ~last.routed
             /\ AllUnset
             /\ ~constructed
        ELSE /\ last.status = "ok"
             /\ constructed
             /\ configuration_ = last.arg

\* C3 (amended): as C3, but with equal spaces construction succeeds when every
\* step is a Component or a Choice; a step of another kind makes it fail with
\* NotImplementedError.
C3_Amended ==
    (last.op = "construct" /\ last.kind = "configuration" /\ last.comp.status = "ok") =>
        IF last.arg.configuration_space # last.comp.cs
        THEN /\ last.status = "ConfigurationMismatch"
             /\ ~last.routed
             /\ AllUnset
             /\ ~constructed
        ELSE IF AllSupported(last.pipeline)
        THEN /\ last.status = "ok"
             /\ constructed
             /\ configuration_ = last.arg
        ELSE /\ last.status = "NotImplementedError"
             /\ ~constructed

C3_Witness ==
    /\ last.op = "construct"
    /\ last.kind = "configuration"
    /\ last.status = "ConfigurationMismatch"
    /\ last.arg.configuration_space # last.comp.cs
    /\ last.comp.status = "ok"

\* The components selectable for choice step i of the composed space.
Selectable(cs, pipeline, i) ==
    UNION {h.domain : h \in {x \in cs.hps : x.name = ChoiceName(pipeline, i)}}

\* The candidates of step i that are true somewhere along axis i.
TrueAlongAxis(matches, i) ==
    {c \in matches.axes[i] : \E f \in matches.true : f[i] = c}

\* C4: for every choice step of a composed space, the selectable components are
\* exactly the candidates that are true in at least one coordinate along the
\* step's axis, a subset of the candidates, and a component without a legal
\* combination contributes no hyperparameter under "<step>:".
C4_ActiveChoices ==
    ComposedOk =>
        \A i \in ChoiceSteps(last.pipeline) :
            /\ Selectable(last.comp.cs, last.pipeline, i) = TrueAlongAxis(last.comp.matches, i)
            /\ Selectable(last.comp.cs, last.pipeline, i) \subseteq last.comp.matches.axes[i]
            /\ \A c \in NodeComponents(last.pipeline[i].name)
                        \ TrueAlongAxis(last.comp.matches, i) :
                  \A n \in SpaceNames(last.comp.cs) :
                      ~(Len(n) >= 3 /\ n[1] = last.pipeline[i].name /\ n[2] = Colon
                        /\ n[3] = c)

C4_Witness ==
    /\ ComposedOk
    /\ \E i \in ChoiceSteps(last.pipeline) :
          /\ "pca" \in last.comp.matches.axes[i]
          /\ "pca" \notin TrueAlongAxis(last.comp.matches, i)
          /\ TrueAlongAxis(last.comp.matches, i) # {}

\* Some Configuration of the space selects the components of coordinate f.
Sampleable(cs, pipeline, f) ==
    \E c \in Configurations(cs) :
        \A i \in DOMAIN f : /\ ChoiceName(pipeline, i) \in DOMAIN c.values
                            /\ c.values[ChoiceName(pipeline, i)] = f[i]

\* C5: in the composed space a combination of component selections can be
\* sampled if and only if its coordinate of the matrix is true; forbidden
\* clauses are added only when true_count < total_size, after all steps are
\* merged, and no clause names a component pruned from its step.
C5_SampleableIffTrue ==
    ComposedOk =>
        /\ \A f \in Coordinates(last.comp.matches.axes) :
              Sampleable(last.comp.cs, last.pipeline, f) <=> f \in last.comp.matches.true
        /\ last.comp.forbidden_applied =>
              /\ MatchesSum(last.comp.matches) < MatchesSize(last.comp.matches)
              /\ last.comp.merged = Len(last.pipeline)
        /\ ~last.comp.forbidden_applied => last.comp.cs.forbidden = {}
        /\ \A cl \in last.comp.cs.forbidden : \A p \in cl :
              \E h \in last.comp.cs.hps : h.name = p[1] /\ p[2] \in h.domain

C5_Witness ==
    /\ ComposedOk
    /\ last.comp.forbidden_applied
    /\ last.comp.cs.forbidden # {}
    /\ \E i \in ChoiceSteps(last.pipeline) :
          TrueAlongAxis(last.comp.matches, i) # last.comp.matches.axes[i]

\* The entries of values v that are set, as <<name, value>> pairs.
SetEntries(v) == {<<n, v[n]>> : n \in {x \in DOMAIN v : v[x] # None}}

\* The set entries of the flat values v under "<name>:", the prefix cut off.
EntriesUnder(v, name) ==
    {<<SubSeq(e[1], 3, Len(e[1])), e[2]>> :
        e \in {x \in SetEntries(v) : Len(x[1]) >= 2 /\ x[1][1] = name /\ x[1][2] = Colon}}

AsDict(entries) == [n \in {e[1] : e \in entries} |->
                      (CHOOSE e \in entries : e[1] = n)[2]]

\* C6: a pipeline constructed without a configuration routes the default of the
\* composed space so that each step holds exactly the entries of the flat
\* configuration under "<step>:" with the prefix cut off, a valid configuration
\* of the sub-space the router builds for the step, with the values the
\* composer's sub-space of the step gives.
C6_RoundTrip ==
    (last.op = "construct" /\ last.kind = "none" /\ last.comp.status = "ok"
     /\ AllSupported(last.pipeline)) =>
        /\ last.status = "ok"
        /\ constructed
        /\ configuration_ \in Configurations(last.comp.cs)
        /\ \A i \in 1..Len(steps) :
             LET held == node_hp[steps[i].name]
                 under == EntriesUnder(configuration_.values, steps[i].name)
                 composer == StepSearchSpace(last.comp.matches, steps, i,
                                             last.comp.dataset_properties)
             IN /\ held.set
                /\ SetEntries(held.configuration.values) = under
                /\ held.configuration.configuration_space =
                      NodeSearchSpace(steps[i].name, steps[i].kind, dataset_properties_,
                                      NoneArg)
                /\ IsLegalConfiguration(held.configuration.configuration_space,
                                        AsDict(under))
                /\ IsLegalConfiguration(composer, AsDict(under))
                /\ SetEntries(Configuration(composer, AsDict(under)).values)
                      = SetEntries(held.configuration.values)

C6_Witness ==
    /\ last.op = "construct"
    /\ last.kind = "none"
    /\ last.status = "ok"
    /\ constructed
    /\ \E i \in 1..Len(steps) :
          /\ node_hp[steps[i].name].configuration.configuration_space
                # StepSearchSpace(last.comp.matches, steps, i, last.comp.dataset_properties)
          /\ EntriesUnder(configuration_.values, steps[i].name) # {}

\* C7: if set_hyperparameters fails at some step, the stored configuration and
\* the hyperparameters of every step are what they were before the call.
C7_AllOrNothing ==
    [][(last'.routed /\ last'.status # "ok") =>
          /\ node_hp' = node_hp
          /\ (last'.op = "set_hyperparameters" => configuration' = configuration)]_vars

\* C8: the dataset_properties dict the caller passes to construction or to
\* search-space composition has the same keys and values after the call.
C8_CallerDictUntouched ==
    last.caller_dict.given => last.caller_dict.after = last.caller_dict.before

\* C9: calling set_hyperparameters(c) on a pipeline to which c was applied by
\* the call before leaves the pipeline state as it is.
C9_Idempotent ==
    [][(/\ constructed
        /\ last.op \in {"construct", "set_hyperparameters"}
        /\ last.status = "ok"
        /\ last'.op = "set_hyperparameters"
        /\ last'.arg = configuration) =>
          /\ last'.status = "ok"
          /\ pipeline_vars' = pipeline_vars]_vars

C9_Witness ==
    /\ constructed
    /\ last.op = "set_hyperparameters"
    /\ last.status = "ok"
    /\ last.arg = configuration
    /\ configuration # configuration_
    /\ \E n \in NodeNames : node_hp[n].set

\* C10: after construction and successful set_hyperparameters calls, the
\* configuration the representation reports is the one passed to the most
\* recent call, and it is the one applied to the steps.
C10_ReprReportsLatest ==
    (constructed /\ last.op = "set_hyperparameters" /\ last.status = "ok") =>
        /\ Repr(configuration_, dataset_properties_).config
              = Repr(last.arg, dataset_properties_).config
        /\ \A i \in 1..Len(steps) :
              SetEntries(node_hp[steps[i].name].configuration.values)
                 = EntriesUnder(last.arg.values, steps[i].name)

====
